---- MODULE Spec2Model ----
(***************************************************************************)
(* Ribasim Python model layer: the node table, the per-node-type tables,   *)
(* the edge table, validation (Model.validate_model) and persistence       *)
(* (Model.write), as implemented in python/ribasim/ribasim/model.py and    *)
(* python/ribasim/ribasim/geometry/edge.py.                                *)
(***************************************************************************)
EXTENDS Integers, Sequences, FiniteSets, TLC

VARIABLES node, edge, tables, disk, result

vars == <<node, edge, tables, disk, result>>

(***************************************************************************)
(* Bounds of the model.                                                    *)
(***************************************************************************)
MaxNodes == 2
MaxId == 1
MaxRows == 2
MaxEdges == 2
MaxLinks == 1
MaxSortRows == 2

(***************************************************************************)
(* Static data.                                                            *)
(***************************************************************************)
\* the node type classes found by Model.get_node_types, in the order of the
\* Model fields that hold them
NodeTypeOrder == <<"Basin", "Pump", "Terminal">>

NodeTypes == {NodeTypeOrder[i] : i \in 1..Len(NodeTypeOrder)}

\* a type tag that is no node type class (tests/test_model.py)
InvalidNodeType == "InvalidNodeType"

EdgeTypes == {"flow", "control"}

NodeIds == 0..MaxId

\* upper bound standing for "unbounded" in the degree constraint table
Unbounded == 1000000000

\* Degree Constraint Table: node_type x edge_type x direction -> (min, max)
n_neighbor_bounds ==
    [t \in NodeTypes |->
       [et \in EdgeTypes |->
          IF et = "flow"
          THEN CASE t = "Basin"    -> [in  |-> [min |-> 0, max |-> Unbounded],
                                       out |-> [min |-> 0, max |-> Unbounded]]
                 [] t = "Pump"     -> [in  |-> [min |-> 1, max |-> 1],
                                       out |-> [min |-> 1, max |-> 1]]
                 [] t = "Terminal" -> [in  |-> [min |-> 1, max |-> Unbounded],
                                       out |-> [min |-> 0, max |-> 0]]
          ELSE CASE t = "Pump"     -> [in  |-> [min |-> 0, max |-> 1],
                                       out |-> [min |-> 0, max |-> 0]]
                 [] OTHER          -> [in  |-> [min |-> 0, max |-> 0],
                                       out |-> [min |-> 0, max |-> 0]]]]

\* type compatibility matrix: the node types a node type may be upstream of
node_type_connectivity ==
    [et \in EdgeTypes |->
       [t \in NodeTypes |->
          IF et = "flow"
          THEN CASE t = "Basin"    -> {"Pump"}
                 [] t = "Pump"     -> {"Basin", "Terminal"}
                 [] t = "Terminal" -> {}
          ELSE {}]]

(***************************************************************************)
(* Helpers on sequences and tables.                                        *)
(***************************************************************************)
Range(s) == {s[i] : i \in 1..Len(s)}

NodeData(id, t) == [node_id |-> id, node_type |-> t]

\* TableModel.get_node_IDs: the node ids of the tables of one node type
get_node_IDs(t) == Range(tables[t].rows)

\* the Model fields that hold a node type and are not None, in field order
PresentTypes == SelectSeq(NodeTypeOrder, LAMBDA t : tables[t].present)

\* index of the node table rows tagged with node type t
node_IDs_from_node_field(t) ==
    {node[i].node_id : i \in {j \in 1..Len(node) : node[j].node_type = t}}

NodeTableIds == {node[i].node_id : i \in 1..Len(node)}

(***************************************************************************)
(* Model.validate_model and its passes.  A pass yields the sequence of     *)
(* violations its exception carries, <<>> when it does not raise.          *)
(***************************************************************************)
Violation(kind, types, ids, t, field_ids, node_ids) ==
    [kind |-> kind, types |-> types, ids |-> ids, field |-> t,
     field_ids |-> field_ids, node_ids |-> node_ids]

\* the check reporting every node type of the node table, valid ones included
validate_model_node_types_unfiltered ==
    LET node_types == {node[i].node_type : i \in 1..Len(node)}
    IN IF node_types \ NodeTypes # {}
       THEN <<Violation("InvalidNodeTypes", node_types, {}, "", {}, {})>>
       ELSE <<>>

validate_model_node_types ==
    LET invalid_node_types ==
            {node[i].node_type : i \in 1..Len(node)} \ NodeTypes
    IN IF invalid_node_types # {}
       THEN <<Violation("InvalidNodeTypes", invalid_node_types, {}, "", {}, {})>>
       ELSE <<>>

\* the count of the rows, not of the node types, that hold the id
node_ID_counts_per_row(id) ==
    Cardinality({<<i, j>> \in (1..Len(PresentTypes)) \X (1..MaxRows) :
                    /\ j <= Len(tables[PresentTypes[i]].rows)
                    /\ tables[PresentTypes[i]].rows[j] = id})

\* np.unique(..., return_counts=True) over the concatenated id lists
node_ID_counts(id) ==
    Cardinality({i \in 1..Len(PresentTypes) : id \in get_node_IDs(PresentTypes[i])})

\* the check with the missing ids taken from the index of the node table
validate_model_node_field_IDs_node_index ==
    LET n_nodes == Len(node)
        node_IDs_unique ==
            UNION {get_node_IDs(PresentTypes[i]) : i \in 1..Len(PresentTypes)}
        non_positive == {id \in node_IDs_unique : ~(id > 0)}
        multiple == {id \in node_IDs_unique : node_ID_counts(id) > 1}
        node_IDs_missing == NodeTableIds \ node_IDs_unique
    IN IF non_positive # {}
       THEN <<Violation("NonPositiveNodeIds", {}, non_positive, "", {}, {})>>
       ELSE IF multiple # {}
       THEN <<Violation("DuplicateNodeIdAcrossTypes", {}, multiple, "", {}, {})>>
       ELSE IF node_IDs_unique # 1..n_nodes
       THEN <<Violation("MissingNodeIds", {}, node_IDs_missing, "", {}, {})>>
       ELSE <<>>

validate_model_node_field_IDs ==
    LET n_nodes == Len(node)
        node_IDs_unique ==
            UNION {get_node_IDs(PresentTypes[i]) : i \in 1..Len(PresentTypes)}
        non_positive == {id \in node_IDs_unique : ~(id > 0)}
        multiple == {id \in node_IDs_unique : node_ID_counts(id) > 1}
        node_IDs_missing == (1..n_nodes) \ node_IDs_unique
    IN IF non_positive # {}
       THEN <<Violation("NonPositiveNodeIds", {}, non_positive, "", {}, {})>>
       ELSE IF multiple # {}
       THEN <<Violation("DuplicateNodeIdAcrossTypes", {}, multiple, "", {}, {})>>
       ELSE IF node_IDs_unique # 1..n_nodes
       THEN <<Violation("MissingNodeIds", {}, node_IDs_missing, "", {}, {})>>
       ELSE <<>>

RECURSIVE error_messages(_)
error_messages(fields) ==
    IF fields = <<>> THEN <<>>
    ELSE LET name == Head(fields)
             rest == error_messages(Tail(fields))
         IN IF node_IDs_from_node_field(name) # get_node_IDs(name)
            THEN <<Violation("NodeIdMismatch", {}, {}, name,
                             get_node_IDs(name), node_IDs_from_node_field(name))>>
                 \o rest
            ELSE rest

\* the check skipping the node types no row of the node table is tagged with
validate_model_node_IDs_tagged_only ==
    SelectSeq(error_messages(PresentTypes), LAMBDA v : v.node_ids # {})

\* the check visiting the node type fields last to first
validate_model_node_IDs_reversed ==
    error_messages([i \in 1..Len(PresentTypes) |->
                       PresentTypes[Len(PresentTypes) + 1 - i]])

validate_model_node_IDs == error_messages(PresentTypes)

validate_model ==
    IF validate_model_node_types # <<>> THEN validate_model_node_types
    ELSE IF validate_model_node_field_IDs # <<>> THEN validate_model_node_field_IDs
    ELSE validate_model_node_IDs

\* what an operation returned or raised
Outcome(op, errors, args) ==
    [op |-> op, ok |-> errors = <<>>, errors |-> errors, args |-> args]

NoArgs == <<>>

(***************************************************************************)
(* Sorting.  A table is a sequence of rows, a row a record of its columns. *)
(***************************************************************************)
\* lexicographic comparison of the columns `by` of two rows
RowLess(a, b, by) ==
    \E i \in 1..Len(by) :
        /\ a[by[i]] < b[by[i]]
        /\ \A j \in 1..(i - 1) : a[by[j]] = b[by[j]]

\* DataFrame.sort_values(by, ignore_index=True): rows in ascending order of the
\* columns `by`, rows that agree on them in their former order
RECURSIVE sort_values(_, _)
sort_values(rows, by) ==
    IF rows = <<>> THEN <<>>
    ELSE LET last == rows[Len(rows)]
             front == sort_values(SubSeq(rows, 1, Len(rows) - 1), by)
             keep == Cardinality({i \in 1..Len(front) : ~RowLess(last, front[i], by)})
         IN SubSeq(front, 1, keep) \o <<last>> \o SubSeq(front, keep + 1, Len(front))

\* TableModel.sort: tables are sorted by "node_id", unless otherwise specified
TableModel_sort(table) ==
    LET frame == [i \in 1..Len(table.rows) |-> [node_id |-> table.rows[i]]]
        sorted == sort_values(frame, <<"node_id">>)
    IN [table EXCEPT !.rows = [i \in 1..Len(sorted) |-> sorted[i].node_id]]

\* sort with the time table ordered by node_id first
TabulatedRatingCurve_sort_node_id_first(curve) ==
    [static |-> sort_values(curve.static, <<"node_id", "level">>),
     time |-> IF curve.time.present
              THEN [curve.time EXCEPT
                      !.rows = sort_values(@, <<"node_id", "time", "level">>)]
              ELSE curve.time]

TabulatedRatingCurve_sort(curve) ==
    [static |-> sort_values(curve.static, <<"node_id", "level">>),
     time |-> IF curve.time.present
              THEN [curve.time EXCEPT
                      !.rows = sort_values(@, <<"time", "node_id", "level">>)]
              ELSE curve.time]

User_sort(user) ==
    [static |-> IF user.static.present
                THEN [user.static EXCEPT !.rows = sort_values(@, <<"node_id">>)]
                ELSE user.static,
     time |-> IF user.time.present
              THEN [user.time EXCEPT
                      !.rows = sort_values(@, <<"node_id", "priority", "time">>)]
              ELSE user.time]

\* the tables of the model after Model.sort
sorted_tables ==
    [name \in DOMAIN tables |->
       CASE name = "TabulatedRatingCurve" -> TabulatedRatingCurve_sort(tables[name])
         [] name = "User" -> User_sort(tables[name])
         [] OTHER -> TableModel_sort(tables[name])]

\* Model.sort
sort ==
    /\ tables' = sorted_tables
    /\ result' = Outcome("sort", <<>>, NoArgs)
    /\ UNCHANGED <<node, edge, disk>>

(***************************************************************************)
(* Persistence.                                                            *)
(***************************************************************************)
NoGpkg == [exists |-> FALSE, Node |-> <<>>, Edge |-> <<>>, fields |-> <<>>]

mkdir(d) == [d EXCEPT !.dir = TRUE]

write_toml(d) == [d EXCEPT !.toml = TRUE]

\* the rows written in the order they have in memory
TableModel_write_unsorted(table) == table.rows

\* TableModel.write: the rows a table writes, sorted before writing
TableModel_write(table) == TableModel_sort(table).rows

\* the tables written into the GeoPackage that is there, its other tables kept
write_tables_appending(d) ==
    LET written == [i \in 1..Len(PresentTypes) |->
                      [field |-> PresentTypes[i],
                       rows |-> TableModel_write(tables[PresentTypes[i]])]]
        kept == SelectSeq(d.gpkg.fields, LAMBDA f : ~tables[f.field].present)
    IN [d EXCEPT !.gpkg = [exists |-> TRUE, Node |-> node, Edge |-> edge,
                           fields |-> kept \o written]]

\* Model._write_tables: the GeoPackage unlinked, then every table written
write_tables(d) ==
    LET unlinked == [d EXCEPT !.gpkg = NoGpkg]
        written == [i \in 1..Len(PresentTypes) |->
                      [field |-> PresentTypes[i],
                       rows |-> TableModel_write(tables[PresentTypes[i]])]]
    IN [unlinked EXCEPT !.gpkg = [exists |-> TRUE, Node |-> node, Edge |-> edge,
                                  fields |-> unlinked.gpkg.fields \o written]]

(***************************************************************************)
(* Operations.                                                             *)
(***************************************************************************)
\* model.node.static = model.node.static with one more row
AppendNode(id, t) ==
    /\ node' = Append(node, NodeData(id, t))
    /\ result' = Outcome("assign", <<>>, NoArgs)
    /\ UNCHANGED <<edge, tables, disk>>

\* assignment of a node type field: one more row in the table of type t
AppendRow(t, id) ==
    /\ tables' = [tables EXCEPT ![t] = [present |-> TRUE,
                                        rows |-> Append(tables[t].rows, id)]]
    /\ result' = Outcome("assign", <<>>, NoArgs)
    /\ UNCHANGED <<node, edge, disk>>

\* the index label of the single row of a newly built table: pandas numbers
\* the rows of a table built without an index from 0
RangeIndexStart == 0

\* Edge.add: pd.concat keeps the index label of the appended row
add(from_node, to_node, edge_type) ==
    LET table_to_append ==
            [index |-> RangeIndexStart,
             from_node_type |-> from_node.node_type,
             from_node_id |-> from_node.node_id,
             to_node_type |-> to_node.node_type,
             to_node_id |-> to_node.node_id,
             edge_type |-> edge_type]
    IN /\ edge' = Append(edge, table_to_append)
       /\ result' = Outcome("add", <<>>, <<table_to_append>>)
       /\ UNCHANGED <<node, tables, disk>>

\* validation that drops the node table rows of an invalid node type it reports
Validate_dropping ==
    /\ result' = Outcome("validate", validate_model, NoArgs)
    /\ node' = SelectSeq(node, LAMBDA n : n.node_type \in NodeTypes)
    /\ UNCHANGED <<edge, tables, disk>>

Validate ==
    /\ result' = Outcome("validate", validate_model, NoArgs)
    /\ UNCHANGED <<node, edge, tables, disk>>

\* Model.write with the directory created before the model is validated
write_mkdir_first ==
    /\ result' = Outcome("write", validate_model, NoArgs)
    /\ disk' = IF validate_model # <<>>
               THEN mkdir(disk)
               ELSE write_tables(write_toml(mkdir(disk)))
    /\ tables' = IF validate_model # <<>> THEN tables ELSE sorted_tables
    /\ UNCHANGED <<node, edge>>

write ==
    /\ result' = Outcome("write", validate_model, NoArgs)
    /\ disk' = IF validate_model # <<>>
               THEN disk
               ELSE write_tables(write_toml(mkdir(disk)))
    /\ tables' = IF validate_model # <<>> THEN tables ELSE sorted_tables
    /\ UNCHANGED <<node, edge>>

(***************************************************************************)
(* Specification: the node table and the node type tables of a model built *)
(* up row by row, validated and written.                                   *)
(***************************************************************************)
EmptyTables ==
    [t \in NodeTypes |-> [present |-> (t = "Basin"), rows |-> <<>>]]

Init ==
    /\ node = <<>>
    /\ edge = <<>>
    /\ tables = EmptyTables
    /\ disk = [dir |-> FALSE, toml |-> FALSE, gpkg |-> NoGpkg]
    /\ result = Outcome("init", <<>>, NoArgs)

\* the node table of a model with one Basin, one Pump and one Terminal
FixtureNodes ==
    <<NodeData(1, "Basin"), NodeData(2, "Pump"), NodeData(3, "Terminal")>>

FixtureTables ==
    [t \in NodeTypes |->
       [present |-> TRUE,
        rows |-> <<CHOOSE i \in 1..Len(FixtureNodes) : FixtureNodes[i].node_type = t>>]]

\* a NodeData that is in no node table of the model
DanglingNode == NodeData(Len(FixtureNodes) + MaxId + 1, "Basin")

\* the NodeData a caller passes to Edge.add
NodeDataInputs == Range(node) \cup {DanglingNode}

\* the passes of validate_model treat all node types alike: rows of two node
\* types and of one invalid type tag are assigned
NodeTypeInputs == {"Basin", "Pump"}

DoAppendNode ==
    \E id \in NodeIds, t \in NodeTypeInputs \cup {InvalidNodeType} :
        Len(node) < MaxNodes /\ AppendNode(id, t)

\* number of rows in all node type tables together
RECURSIVE RowCount(_)
RowCount(types) ==
    IF types = <<>> THEN 0
    ELSE Len(tables[Head(types)].rows) + RowCount(Tail(types))

DoAppendRow ==
    \E t \in NodeTypeInputs, id \in NodeIds :
        RowCount(NodeTypeOrder) < MaxRows /\ AppendRow(t, id)

Next ==
    \/ DoAppendNode
    \/ DoAppendRow
    \/ Validate
    \/ write

Spec == Init /\ [][Next]_vars

(***************************************************************************)
(* Specification: edges added to a valid three node model.                 *)
(***************************************************************************)
InitEdge ==
    /\ node = FixtureNodes
    /\ edge = <<>>
    /\ tables = FixtureTables
    /\ disk = [dir |-> FALSE, toml |-> FALSE, gpkg |-> NoGpkg]
    /\ result = Outcome("init", <<>>, NoArgs)

DoAdd ==
    \E f \in NodeDataInputs, t \in NodeDataInputs, et \in EdgeTypes :
        Len(edge) < MaxEdges /\ add(f, t, et)

NextEdge ==
    \/ DoAdd
    \/ Validate
    \/ write

SpecEdge == InitEdge /\ [][NextEdge]_vars

(***************************************************************************)
(* The checks of the Edge Set and the degree pass, as specified.           *)
(***************************************************************************)
\* number of edges of type et leaving (dir = "out") or entering node id
n_neighbor(edges, id, et, dir) ==
    Cardinality({i \in 1..Len(edges) :
                   /\ edges[i].edge_type = et
                   /\ IF dir = "out" THEN edges[i].from_node_id = id
                                     ELSE edges[i].to_node_id = id})

UnknownNode(e) ==
    e.from_node_id \notin NodeTableIds \/ e.to_node_id \notin NodeTableIds

DuplicateEdge(edges, e) ==
    \E i \in 1..Len(edges) :
        /\ edges[i].from_node_id = e.from_node_id
        /\ edges[i].to_node_id = e.to_node_id

IncompatibleNodeTypes(e) ==
    e.to_node_type \notin node_type_connectivity[e.edge_type][e.from_node_type]

AtMaxNeighbors(edges, e) ==
    \/ n_neighbor(edges, e.from_node_id, e.edge_type, "out")
         >= n_neighbor_bounds[e.from_node_type][e.edge_type].out.max
    \/ n_neighbor(edges, e.to_node_id, e.edge_type, "in")
         >= n_neighbor_bounds[e.to_node_type][e.edge_type].in.max

Directions == {"in", "out"}

\* the (node, edge_type, direction) triples outside their (min, max) bound
DegreeViolations(nodes, edges) ==
    {d \in [node_id : {nodes[i].node_id : i \in 1..Len(nodes)},
            edge_type : EdgeTypes, direction : Directions] :
       \E i \in 1..Len(nodes) :
          /\ nodes[i].node_id = d.node_id
          /\ LET bound == n_neighbor_bounds[nodes[i].node_type][d.edge_type][d.direction]
                 count == n_neighbor(edges, d.node_id, d.edge_type, d.direction)
             IN count < bound.min \/ count > bound.max}

BelowMinimum(nodes, edges) ==
    {d \in DegreeViolations(nodes, edges) :
       \E i \in 1..Len(nodes) :
          /\ nodes[i].node_id = d.node_id
          /\ n_neighbor(edges, d.node_id, d.edge_type, d.direction)
               < n_neighbor_bounds[nodes[i].node_type][d.edge_type][d.direction].min}

(***************************************************************************)
(* Properties.                                                             *)
(***************************************************************************)
Validated == result.op \in {"validate", "write"}

\* C1: a write whose validation reports a violation raises and leaves the
\* disk as it was: no directory, TOML or GeoPackage is created, and an
\* existing GeoPackage is not deleted.
C1_FailedWriteTouchesNothing ==
    [][(result'.op = "write" /\ ~result'.ok) => disk' = disk]_vars

\* a write was refused while a GeoPackage of an earlier write exists
C1_Witness ==
    /\ result.op = "write"
    /\ ~result.ok
    /\ disk.gpkg.exists
    /\ disk.gpkg.Node # node

\* C2: one validate or write call reports the violations of every pass that
\* fails on the model, not only those of the first failing pass.
C2_AllPassesReported ==
    Validated =>
        /\ Range(validate_model_node_types) \subseteq Range(result.errors)
        /\ Range(validate_model_node_field_IDs) \subseteq Range(result.errors)
        /\ Range(validate_model_node_IDs) \subseteq Range(result.errors)

\* C3: no two edges of the Edge Set share the ordered pair
\* (from_node_id, to_node_id), whatever their edge types.
C3_NoDuplicateEdges ==
    \A i, j \in 1..Len(edge) :
        (/\ edge[i].from_node_id = edge[j].from_node_id
         /\ edge[i].to_node_id = edge[j].to_node_id) => i = j

\* C4: an edge add that meets a structural error (UnknownNode,
\* DuplicateEdge, IncompatibleNodeTypes) leaves the node table, the Edge
\* Set and the per-type tables as they were.
C4_FailedAddChangesNothing ==
    [][(/\ result'.op = "add"
        /\ \/ UnknownNode(result'.args[1])
           \/ DuplicateEdge(edge, result'.args[1])
           \/ IncompatibleNodeTypes(result'.args[1]))
       => UNCHANGED <<node, edge, tables>>]_vars

\* C5: every edge of a written bundle has both its from_node_id and its
\* to_node_id among the node ids of the written node table.
C5_WrittenEdgesResolve ==
    disk.gpkg.exists =>
        \A i \in 1..Len(disk.gpkg.Edge) :
            /\ \E n \in Range(disk.gpkg.Node) :
                   n.node_id = disk.gpkg.Edge[i].from_node_id
            /\ \E n \in Range(disk.gpkg.Node) :
                   n.node_id = disk.gpkg.Edge[i].to_node_id

\* C6: an edge add is rejected when the from node already has the maximum
\* number of outneighbors of the edge's type, or the to node the maximum
\* number of inneighbors (stated for adds between known nodes of a permitted
\* type pair that are no duplicates, which no other check rejects).
C6_AddAtMaximumRejected ==
    [][(/\ result'.op = "add"
        /\ ~UnknownNode(result'.args[1])
        /\ ~DuplicateEdge(edge, result'.args[1])
        /\ ~IncompatibleNodeTypes(result'.args[1])
        /\ AtMaxNeighbors(edge, result'.args[1]))
       => edge' = edge]_vars

\* C7: validation reports a degree constraint violation for exactly the
\* nodes whose in- or out-degree lies outside the bound of their type.
C7_DegreePassReports ==
    result.op = "validate" =>
        {v.ids : v \in {w \in Range(result.errors) :
                          w.kind = "DegreeConstraintViolation"}}
          = {{d.node_id} : d \in DegreeViolations(node, edge)}

\* C8: a model with a node that has fewer in- or outneighbors than the
\* minimum of its node type is never written.
C8_BelowMinimumNotWritten ==
    (result.op = "write" /\ result.ok) => BelowMinimum(node, edge) = {}

\* C9: every edge of the Edge Set connects a (from_node_type, to_node_type)
\* pair that the compatibility matrix permits for its edge type.
C9_EdgesConnectPermittedTypes ==
    \A i \in 1..Len(edge) : ~IncompatibleNodeTypes(edge[i])

\* C10: an edge add whose from node or to node is absent from the node
\* table at the time of the call adds no edge.
C10_UnknownNodeRejected ==
    [][(result'.op = "add" /\ UnknownNode(result'.args[1]))
       => edge' = edge]_vars
\* C11: edge ids are sequential and 1-based in insertion order: the i-th
\* edge of the Edge Set has id i.
C11_EdgeIdsSequential ==
    \A i \in 1..Len(edge) : edge[i].index = i
(***************************************************************************)
(* Node Registry: nodes added with model.<node type>.add(Node(...), tables) *)
(* and removed again, edges connected and removed.                         *)
(***************************************************************************)
\* Node(node_id, geometry): "Input should be greater than or equal to 0"
Node_valid(node_id) == node_id >= 0

NodeError(kind, id) == <<Violation(kind, {}, {id}, "", {}, {})>>

\* add that appends the rows before it registers the node
NodeAdd_rows_first(t, id, with_rows) ==
    LET errors == IF id \in NodeTableIds THEN NodeError("DuplicateNodeId", id)
                  ELSE IF ~Node_valid(id) THEN NodeError("InvalidNodeId", id)
                  ELSE IF t \notin NodeTypes THEN NodeError("UnknownNodeType", id)
                  ELSE <<>>
    IN /\ result' = Outcome("node_add", errors, <<NodeData(id, t)>>)
       /\ tables' = IF with_rows /\ t \in NodeTypes
                    THEN [tables EXCEPT ![t] =
                            [present |-> TRUE,
                             rows |-> Append(tables[t].rows, id)]]
                    ELSE tables
       /\ node' = IF errors # <<>> THEN node ELSE Append(node, NodeData(id, t))
       /\ UNCHANGED <<edge, disk>>

\* add without the check for a node id that is already present
NodeAdd_unchecked(t, id, with_rows) ==
    LET errors == IF ~Node_valid(id) THEN NodeError("InvalidNodeId", id)
                  ELSE IF t \notin NodeTypes THEN NodeError("UnknownNodeType", id)
                  ELSE <<>>
    IN /\ result' = Outcome("node_add", errors, <<NodeData(id, t)>>)
       /\ IF errors # <<>>
          THEN UNCHANGED <<node, tables>>
          ELSE /\ node' = Append(node, NodeData(id, t))
               /\ tables' = IF with_rows
                            THEN [tables EXCEPT ![t] =
                                    [present |-> TRUE,
                                     rows |-> Append(tables[t].rows, id)]]
                            ELSE tables
       /\ UNCHANGED <<edge, disk>>

\* add(node, tables...): registers the node, then appends its rows
NodeAdd(t, id, with_rows) ==
    LET errors == IF id \in NodeTableIds THEN NodeError("DuplicateNodeId", id)
                  ELSE IF ~Node_valid(id) THEN NodeError("InvalidNodeId", id)
                  ELSE IF t \notin NodeTypes THEN NodeError("UnknownNodeType", id)
                  ELSE <<>>
    IN /\ result' = Outcome("node_add", errors, <<NodeData(id, t)>>)
       /\ IF errors # <<>>
          THEN UNCHANGED <<node, tables>>
          ELSE /\ node' = Append(node, NodeData(id, t))
               /\ tables' = IF with_rows
                            THEN [tables EXCEPT ![t] =
                                    [present |-> TRUE,
                                     rows |-> Append(tables[t].rows, id)]]
                            ELSE tables
       /\ UNCHANGED <<edge, disk>>

\* an edge or a per-type table row references node id
NodeInUse(id) ==
    \/ \E i \in 1..Len(edge) : edge[i].from_node_id = id \/ edge[i].to_node_id = id
    \/ \E t \in NodeTypes : id \in get_node_IDs(t)

\* remove that deletes the node whatever references it
NodeRemove_unchecked(id) ==
    /\ result' = Outcome("node_remove", <<>>, <<NodeData(id, "")>>)
    /\ node' = SelectSeq(node, LAMBDA n : n.node_id # id)
    /\ UNCHANGED <<edge, tables, disk>>

\* remove(node_id)
NodeRemove(id) ==
    LET errors == IF NodeInUse(id) THEN NodeError("NodeInUse", id) ELSE <<>>
    IN /\ result' = Outcome("node_remove", errors, <<NodeData(id, "")>>)
       /\ node' = IF errors # <<>> THEN node
                  ELSE SelectSeq(node, LAMBDA n : n.node_id # id)
       /\ UNCHANGED <<edge, tables, disk>>

\* removal of the i-th edge of the Edge Set
EdgeRemove(i) ==
    /\ edge' = [j \in 1..(Len(edge) - 1) |-> IF j < i THEN edge[j] ELSE edge[j + 1]]
    /\ result' = Outcome("edge_remove", <<>>, <<edge[i]>>)
    /\ UNCHANGED <<node, tables, disk>>

\* node ids passed to Node(...): a negative id, zero and positive ids
NodeIdInputs == (0 - 1)..MaxId

DoNodeAdd ==
    \E t \in NodeTypeInputs \cup {InvalidNodeType}, id \in NodeIdInputs,
       with_rows \in BOOLEAN :
        Len(node) < MaxNodes /\ NodeAdd(t, id, with_rows)

DoNodeRemove == \E id \in NodeTableIds : NodeRemove(id)

DoConnect ==
    \E f \in Range(node), t \in Range(node) :
        Len(edge) < MaxLinks /\ add(f, t, "flow")

DoEdgeRemove == \E i \in 1..Len(edge) : EdgeRemove(i)

NextNode ==
    \/ DoNodeAdd
    \/ DoNodeRemove
    \/ DoConnect
    \/ DoEdgeRemove

SpecNode == Init /\ [][NextNode]_vars

\* C12: adding a node of a recognized type with a node_id <= 0 that is not
\* yet registered fails with InvalidNodeId and registers nothing.
C12_NonPositiveIdRejected ==
    [][(/\ result'.op = "node_add"
        /\ result'.args[1].node_type \in NodeTypes
        /\ result'.args[1].node_id \notin NodeTableIds
        /\ result'.args[1].node_id <= 0)
       => /\ ~result'.ok
          /\ result'.errors[1].kind = "InvalidNodeId"
          /\ node' = node]_vars

\* C13: the node ids of the node table are pairwise distinct in every state,
\* and adding a node whose id is already present, under the same or another
\* node type, fails with DuplicateNodeId.
C13_NodeIdsUnique ==
    /\ [](\A i, j \in 1..Len(node) : node[i].node_id = node[j].node_id => i = j)
    /\ [][(result'.op = "node_add" /\ result'.args[1].node_id \in NodeTableIds)
          => /\ ~result'.ok
             /\ result'.errors[1].kind = "DuplicateNodeId"
             /\ node' = node]_vars

\* an add of an id that is registered under another node type was refused
C13_Witness ==
    /\ result.op = "node_add"
    /\ ~result.ok
    /\ result.errors[1].kind = "DuplicateNodeId"
    /\ \E i \in 1..Len(node) :
          /\ node[i].node_id = result.args[1].node_id
          /\ node[i].node_type # result.args[1].node_type
          /\ result.args[1].node_type \in NodeTypes

C15_AllMismatchesReported ==
    Validated =>
      LET mismatching ==
              {t \in NodeTypes : node_IDs_from_node_field(t) # get_node_IDs(t)}
      IN /\ result.ok => mismatching = {}
         /\ (validate_model_node_types = <<>> /\ validate_model_node_field_IDs = <<>>)
              => \A t \in mismatching :
                    \E i \in 1..Len(result.errors) :
                       /\ result.errors[i].kind = "NodeIdMismatch"
                       /\ result.errors[i].field = t
                       /\ result.errors[i].field_ids = get_node_IDs(t)
                       /\ result.errors[i].node_ids = node_IDs_from_node_field(t)

\* C16: a validated model is accepted only if the merged ids of the per-type
\* tables are exactly 1..n, n the number of rows of the node table; when the
\* node types are valid and the ids positive and in one type each, a failure
\* reports the missing ids of 1..n and the ids outside 1..n by value.
C16_MissingAndUnexpectedReported ==
    Validated =>
      LET merged == UNION {get_node_IDs(t) : t \in NodeTypes}
          expected == 1..Len(node)
      IN /\ result.ok => merged = expected
         /\ ( /\ validate_model_node_types = <<>>
              /\ \A id \in merged : id > 0 /\ node_ID_counts(id) = 1
              /\ merged # expected )
              => /\ ~result.ok
                 /\ \E i \in 1..Len(result.errors) :
                       /\ result.errors[i].kind = "MissingNodeIds"
                       /\ result.errors[i].ids = expected \ merged
                 /\ \A id \in merged \ expected :
                       \E i \in 1..Len(result.errors) : id \in result.errors[i].ids

\* C18: validation of a model in which a node id is in the tables of more
\* than one node type fails with DuplicateNodeIdAcrossTypes listing these ids,
\* and an accepted model has every node id in the tables of exactly one type.
C18_DuplicateAcrossTypesReported ==
    Validated =>
      LET merged == UNION {get_node_IDs(t) : t \in NodeTypes}
          multiple == {id \in merged : node_ID_counts(id) > 1}
      IN /\ multiple # {} =>
               \E i \in 1..Len(result.errors) :
                  /\ result.errors[i].kind = "DuplicateNodeIdAcrossTypes"
                  /\ result.errors[i].ids = multiple
         /\ result.ok => \A id \in NodeTableIds : node_ID_counts(id) = 1

\* C19: validation of a model in which a per-type table references a node id
\* that is not a positive integer fails with NonPositiveNodeIds listing the
\* offending values.
C19_NonPositiveIdsReported ==
    Validated =>
      LET merged == UNION {get_node_IDs(t) : t \in NodeTypes}
          non_positive == {id \in merged : ~(id > 0)}
      IN non_positive # {} =>
            \E i \in 1..Len(result.errors) :
               /\ result.errors[i].kind = "NonPositiveNodeIds"
               /\ result.errors[i].ids = non_positive
(***************************************************************************)
(* Validation of models given whole: a node table whose index is drawn     *)
(* from the node ids of the basic test model, a basin table referencing    *)
(* these ids or an id that is in no node table.                            *)
(***************************************************************************)
\* basic_model: node_ids = [1, 3, 6, 9]
ExampleNodeIds == {1, 3, 6, 9}

\* a node id far outside the node table
StrayNodeId == 1000

ExampleFieldIds == {1, 3, 6, StrayNodeId}

\* node types not in Model.get_node_types()
InvalidNodeTypeTags == {InvalidNodeType, "Weir"}

NoRow == "none"

\* the ids of a set in ascending order, as a sorted index holds them
RECURSIVE SortedIds(_)
SortedIds(S) ==
    IF S = {} THEN <<>>
    ELSE LET least == CHOOSE x \in S : \A y \in S : x <= y
         IN <<least>> \o SortedIds(S \ {least})

InitExample ==
    \E tag \in [ExampleNodeIds -> {"Basin", NoRow} \cup InvalidNodeTypeTags],
       field_ids \in SUBSET (ExampleNodeIds \cup ExampleFieldIds) :
        LET index == SortedIds({id \in ExampleNodeIds : tag[id] # NoRow})
        IN /\ node = [i \in 1..Len(index) |-> NodeData(index[i], tag[index[i]])]
           /\ edge = <<>>
           /\ tables = [EmptyTables EXCEPT !["Basin"].rows = SortedIds(field_ids)]
           /\ disk = [dir |-> FALSE, toml |-> FALSE, gpkg |-> NoGpkg]
           /\ result = Outcome("init", <<>>, NoArgs)

NextExample == Validate \/ write

SpecExample == InitExample /\ [][NextExample]_vars

C20_InvalidNodeTypesListed ==
    Validated =>
      LET invalid_tags == {node[i].node_type : i \in 1..Len(node)} \ NodeTypes
      IN IF invalid_tags # {}
         THEN /\ ~result.ok
              /\ Len(result.errors) = 1
              /\ result.errors[1].kind = "InvalidNodeTypes"
              /\ result.errors[1].types = invalid_tags
         ELSE \A i \in 1..Len(result.errors) :
                 result.errors[i].kind # "InvalidNodeTypes"

\* a node table with a basin and two distinct invalid node types was refused
C20_Witness ==
    /\ result.op = "validate"
    /\ \E i \in 1..Len(node) : node[i].node_type = "Basin"
    /\ Cardinality({node[i].node_type : i \in 1..Len(node)} \ NodeTypes) = 2
    /\ ~result.ok
    /\ result.errors[1].types = InvalidNodeTypeTags
AssembledIds == 1..MaxNodes

\* the rows of one table, by ascending node_id
AssembledRows ==
    {rows \in UNION {[1..k -> AssembledIds] : k \in 0..MaxRows} :
        \A i, j \in 1..Len(rows) : i < j => rows[i] <= rows[j]}

AssembledNodes ==
    UNION {[1..k -> [node_id : AssembledIds, node_type : NodeTypes]] : k \in 0..MaxNodes}

InitAssembled ==
    \E static \in AssembledNodes, basin \in AssembledRows,
       pump \in {rows \in AssembledRows : Len(rows) <= 1} :
        /\ node = static
        /\ edge = <<>>
        /\ tables = [t \in NodeTypes |->
                       CASE t = "Basin" -> [present |-> TRUE, rows |-> basin]
                         [] t = "Pump"  -> [present |-> pump # <<>>, rows |-> pump]
                         [] OTHER       -> [present |-> FALSE, rows |-> <<>>]]
        /\ disk = [dir |-> FALSE, toml |-> FALSE, gpkg |-> NoGpkg]
        /\ result = Outcome("init", <<>>, NoArgs)

NextAssembled == Validate \/ write

SpecAssembled == InitAssembled /\ [][NextAssembled]_vars

\* C22 as stated: the violations of a validation are in the order of the
\* passes (node types, node id fields, cross-reference, degree), and the
\* violations of one pass are in ascending order of the node id they are about.
C22_AscendingNodeIdOrder ==
    Validated =>
      LET pass(v) == CASE v.kind = "InvalidNodeTypes" -> 1
                       [] v.kind = "NodeIdMismatch" -> 3
                       [] v.kind = "DegreeViolation" -> 4
                       [] OTHER -> 2
          offending(v) == v.ids \cup (v.field_ids \ v.node_ids)
                                \cup (v.node_ids \ v.field_ids)
          least(S) == IF S = {} THEN 0 ELSE CHOOSE x \in S : \A y \in S : x <= y
      IN \A i, j \in 1..Len(result.errors) :
            i < j => /\ pass(result.errors[i]) <= pass(result.errors[j])
                     /\ pass(result.errors[i]) = pass(result.errors[j])
                          => least(offending(result.errors[i]))
                               <= least(offending(result.errors[j]))

\* C22 amended: the violations of a validation are in the order of the
\* passes, and the mismatches of the cross-reference pass are in the order
\* of the node type fields of the model, one per field.
C22_FieldOrder ==
    Validated =>
      LET pass(v) == CASE v.kind = "InvalidNodeTypes" -> 1
                       [] v.kind = "NodeIdMismatch" -> 3
                       [] v.kind = "DegreeViolation" -> 4
                       [] OTHER -> 2
          position(t) == CHOOSE k \in 1..Len(NodeTypeOrder) : NodeTypeOrder[k] = t
      IN \A i, j \in 1..Len(result.errors) :
            i < j => /\ pass(result.errors[i]) <= pass(result.errors[j])
                     /\ pass(result.errors[i]) = 3
                          => position(result.errors[i].field)
                               < position(result.errors[j].field)

\* a validation reported the mismatch of the basin field, about node 2,
\* before the mismatch of the pump field, about node 1
C22_Witness ==
    /\ Validated
    /\ Len(result.errors) = 2
    /\ result.errors[1].field = "Basin"
    /\ result.errors[1].field_ids = {2}
    /\ result.errors[1].node_ids = {}
    /\ result.errors[2].field = "Pump"
    /\ result.errors[2].field_ids = {1}
    /\ result.errors[2].node_ids = {}
\* C23: an add whose registration of the node fails appends no row to any
\* per-type table and registers nothing; a successful add registers the node
\* and appends rows of this node only; in every state the per-type tables
\* hold rows of registered node ids only.
C23_AddAllOrNothing ==
    /\ [](\A t \in NodeTypes : get_node_IDs(t) \subseteq NodeTableIds)
    /\ [][result'.op = "node_add" =>
            IF result'.ok
            THEN /\ node' = Append(node, result'.args[1])
                 /\ \A t \in NodeTypes :
                       Range(tables'[t].rows) \subseteq
                          get_node_IDs(t) \cup {result'.args[1].node_id}
            ELSE node' = node /\ tables' = tables]_vars

\* an add was refused in a model that holds a registered node with rows
C23_Witness ==
    /\ result.op = "node_add"
    /\ ~result.ok
    /\ \E t \in NodeTypes : get_node_IDs(t) # {}
    /\ \A t \in NodeTypes : result.args[1].node_id \notin get_node_IDs(t)
(***************************************************************************)
(* Model.sort applied to the tables of a TabulatedRatingCurve or a User,   *)
(* their rows given in any order.                                          *)
(***************************************************************************)
SortIds == 1..2
Times == 0..1
Levels == 0..1
Priorities == 1..2

CurveStaticRows == [node_id : SortIds, level : Levels]
CurveTimeRows == [node_id : SortIds, time : Times, level : Levels]
UserStaticRows == [node_id : SortIds]
UserTimeRows == [node_id : SortIds, priority : Priorities, time : Times]

\* the tables of at most MaxSortRows rows taken from S
Frames(S) == UNION {[1..k -> S] : k \in 0..MaxSortRows}

\* an optional table: None when it has no rows
Optional(rows) == [present |-> rows # <<>>, rows |-> rows]

InitSort ==
    /\ node = <<>>
    /\ edge = <<>>
    /\ disk = [dir |-> FALSE, toml |-> FALSE, gpkg |-> NoGpkg]
    /\ result = Outcome("init", <<>>, NoArgs)
    /\ \/ \E static \in Frames(CurveStaticRows), time \in Frames(CurveTimeRows) :
             tables = EmptyTables
                        @@ ("TabulatedRatingCurve" :>
                              [static |-> static, time |-> Optional(time)])
                        @@ ("User" :>
                              [static |-> Optional(<<>>), time |-> Optional(<<>>)])
       \/ \E static \in Frames(UserStaticRows), time \in Frames(UserTimeRows) :
             tables = EmptyTables
                        @@ ("TabulatedRatingCurve" :>
                              [static |-> <<>>, time |-> Optional(<<>>)])
                        @@ ("User" :>
                              [static |-> Optional(static), time |-> Optional(time)])

NextSort == sort

SpecSort == InitSort /\ [][NextSort]_vars

\* rows are in ascending order of the columns `by`
IsSorted(rows, by) ==
    \A i, j \in 1..Len(rows) : i < j => ~RowLess(rows[j], rows[i], by)

\* the number of rows of a table equal to row r
Occurrences(rows, r) == Cardinality({i \in 1..Len(rows) : rows[i] = r})

\* C24 as stated: after sort every table is ordered by node_id first, then
\* by time when it is a time table, then by its secondary key (level,
\* priority), the time tables of TabulatedRatingCurve and User included.
C24_NodeIdThenTime ==
    result.op = "sort" =>
      /\ IsSorted(tables["TabulatedRatingCurve"].static, <<"node_id", "level">>)
      /\ IsSorted(tables["TabulatedRatingCurve"].time.rows, <<"node_id", "time", "level">>)
      /\ IsSorted(tables["User"].static.rows, <<"node_id">>)
      /\ IsSorted(tables["User"].time.rows, <<"node_id", "time", "priority">>)

\* C24 amended: sort keeps the rows of every table, and after sort the static
\* tables are ordered by node_id (then level), the time table of
\* TabulatedRatingCurve by time, node_id, level and the time table of User by
\* node_id, priority, time.
C24_SortKeys ==
    /\ [](result.op = "sort" =>
            /\ IsSorted(tables["TabulatedRatingCurve"].static, <<"node_id", "level">>)
            /\ IsSorted(tables["TabulatedRatingCurve"].time.rows, <<"time", "node_id", "level">>)
            /\ IsSorted(tables["User"].static.rows, <<"node_id">>)
            /\ IsSorted(tables["User"].time.rows, <<"node_id", "priority", "time">>))
    /\ [][result'.op = "sort" =>
            /\ \A r \in CurveStaticRows :
                  Occurrences(tables'["TabulatedRatingCurve"].static, r)
                     = Occurrences(tables["TabulatedRatingCurve"].static, r)
            /\ \A r \in CurveTimeRows :
                  Occurrences(tables'["TabulatedRatingCurve"].time.rows, r)
                     = Occurrences(tables["TabulatedRatingCurve"].time.rows, r)
            /\ \A r \in UserStaticRows :
                  Occurrences(tables'["User"].static.rows, r)
                     = Occurrences(tables["User"].static.rows, r)
            /\ \A r \in UserTimeRows :
                  Occurrences(tables'["User"].time.rows, r)
                     = Occurrences(tables["User"].time.rows, r)]_vars

\* a sorted time table of a TabulatedRatingCurve with the row of node 2 at
\* the earlier time before the row of node 1 at the later time
C24_Witness ==
    /\ result.op = "sort"
    /\ tables["TabulatedRatingCurve"].time.rows =
          <<[node_id |-> 2, time |-> 0, level |-> 0],
            [node_id |-> 1, time |-> 1, level |-> 0]>>
(***************************************************************************)
(* Persistence of valid models: a model is constructed, written, another   *)
(* model of the same name constructed and written to the same directory,   *)
(* the written model read back.                                            *)
(***************************************************************************)
\* a valid model of k basins whose rows are given in any order, with or
\* without a pump numbered k + 1 and an edge from basin 1 to the pump
PersistModel(k, rows, variant) ==
    LET pump == NodeData(k + 1, "Pump")
    IN [node |-> [i \in 1..k |-> NodeData(i, "Basin")]
                   \o (IF variant = "basins" THEN <<>> ELSE <<pump>>),
        edge |-> IF variant = "linked"
                 THEN <<[index |-> RangeIndexStart,
                         from_node_type |-> "Basin", from_node_id |-> 1,
                         to_node_type |-> "Pump", to_node_id |-> k + 1,
                         edge_type |-> "flow"]>>
                 ELSE <<>>,
        tables |-> [t \in NodeTypes |->
                      CASE t = "Basin" -> [present |-> TRUE, rows |-> rows]
                        [] t = "Pump"  -> IF variant = "basins"
                                          THEN [present |-> FALSE, rows |-> <<>>]
                                          ELSE [present |-> TRUE, rows |-> <<k + 1>>]
                        [] OTHER       -> [present |-> FALSE, rows |-> <<>>]]]

PersistModels ==
    UNION {{PersistModel(k, rows, variant) :
              rows \in {s \in UNION {[1..l -> 1..k] : l \in 1..MaxRows} : Range(s) = 1..k},
              variant \in {"basins", "pump", "linked"}} : k \in 1..MaxNodes}

\* Model(modelname=..., node=..., edge=..., basin=..., pump=...)
Construct(m) ==
    /\ node' = m.node
    /\ edge' = m.edge
    /\ tables' = m.tables
    /\ result' = Outcome("assign", <<>>, NoArgs)
    /\ UNCHANGED disk

\* from_toml reading the node types only, not the geometry tables
from_toml_node_types_only ==
    IF ~disk.toml
    THEN /\ result' = Outcome("from_toml",
                              <<Violation("FileNotFoundError", {}, {}, "", {}, {})>>, NoArgs)
         /\ UNCHANGED <<node, edge, tables, disk>>
    ELSE /\ node' = disk.gpkg.Node
         /\ edge' = <<>>
         /\ tables' = [t \in NodeTypes |->
                         LET read == SelectSeq(disk.gpkg.fields, LAMBDA f : f.field = t)
                         IN IF read = <<>>
                            THEN [present |-> FALSE, rows |-> <<>>]
                            ELSE [present |-> TRUE, rows |-> read[1].rows]]
         /\ result' = Outcome("from_toml", <<>>, NoArgs)
         /\ UNCHANGED disk

\* Model.from_toml: the model read from the TOML file and its GeoPackage
from_toml ==
    IF ~disk.toml
    THEN /\ result' = Outcome("from_toml",
                              <<Violation("FileNotFoundError", {}, {}, "", {}, {})>>, NoArgs)
         /\ UNCHANGED <<node, edge, tables, disk>>
    ELSE /\ node' = disk.gpkg.Node
         /\ edge' = disk.gpkg.Edge
         /\ tables' = [t \in NodeTypes |->
                         LET read == SelectSeq(disk.gpkg.fields, LAMBDA f : f.field = t)
                         IN IF read = <<>>
                            THEN [present |-> FALSE, rows |-> <<>>]
                            ELSE [present |-> TRUE, rows |-> read[1].rows]]
         /\ result' = Outcome("from_toml", <<>>, NoArgs)
         /\ UNCHANGED disk

InitPersist ==
    \E m \in PersistModels :
        /\ node = m.node
        /\ edge = m.edge
        /\ tables = m.tables
        /\ disk = [dir |-> FALSE, toml |-> FALSE, gpkg |-> NoGpkg]
        /\ result = Outcome("init", <<>>, NoArgs)

DoConstruct == \E m \in PersistModels : Construct(m)

NextPersist ==
    \/ DoConstruct
    \/ write
    \/ from_toml

SpecPersist == InitPersist /\ [][NextPersist]_vars

C30_GpkgHoldsLastModel ==
    (result.op = "write" /\ result.ok) =>
      /\ disk.gpkg.exists
      /\ disk.gpkg.Node = node
      /\ disk.gpkg.Edge = edge
      /\ Len(disk.gpkg.fields) = Cardinality({t \in NodeTypes : tables[t].present})
      /\ \A i \in 1..Len(disk.gpkg.fields) :
            /\ tables[disk.gpkg.fields[i].field].present
            /\ disk.gpkg.fields[i].rows = tables[disk.gpkg.fields[i].field].rows

\* a model without a pump table was written and the GeoPackage holds no
\* pump table
C30_Witness ==
    /\ result.op = "write"
    /\ result.ok
    /\ ~tables["Pump"].present
    /\ Len(disk.gpkg.fields) = 1
    /\ disk.gpkg.fields[1].field = "Basin"
\* C27: in a model that validation accepted the ids of the node table are
\* pairwise distinct and exactly 1..n, and every node of the node table is in
\* the table of its own node type and in the table of no other node type.
C27_AcceptedNodeTable ==
    (Validated /\ result.ok) =>
      /\ \A i, j \in 1..Len(node) : node[i].node_id = node[j].node_id => i = j
      /\ NodeTableIds = 1..Len(node)
      /\ \A i \in 1..Len(node) :
            \A t \in NodeTypes :
               node[i].node_id \in get_node_IDs(t) <=> t = node[i].node_type

\* a model of a basin and a pump, the ids in the node table not in ascending
\* order, was accepted
C27_Witness ==
    /\ Validated
    /\ result.ok
    /\ Len(node) = 2
    /\ node[1].node_id = 2
    /\ node[1].node_type # node[2].node_type

\* C28: the node ids a validation reports as assigned to multiple node types
\* are in the tables of at least two node types each; a node id in several
\* rows of the tables of one node type is not among them.
C28_CountedOncePerType ==
    Validated =>
      \A i \in 1..Len(result.errors) :
         result.errors[i].kind = "DuplicateNodeIdAcrossTypes" =>
            \A id \in result.errors[i].ids :
               Cardinality({t \in NodeTypes : id \in get_node_IDs(t)}) > 1

\* a model whose basin table has two rows of node 1 was accepted
C28_Witness ==
    /\ Validated
    /\ result.ok
    /\ Len(tables["Basin"].rows) = 2
    /\ get_node_IDs("Basin") = {1}
(***************************************************************************)
(* ugridify: the node table as read from the GeoPackage and the edge table *)
(* of the model, their indexes in any order.                               *)
(***************************************************************************)
\* Index.argsort(): the 0-based positions of the labels, smallest label first
argsort(index) ==
    [k \in 1..Len(index) |->
       (CHOOSE p \in 1..Len(index) :
           Cardinality({q \in 1..Len(index) :
                           \/ index[q] < index[p]
                           \/ index[q] = index[p] /\ q < p}) = k - 1) - 1]

\* pd.Series(index=index, data=data): label -> the data of the row with the label
Series(index, data) ==
    [label \in Range(index) |-> data[CHOOSE p \in 1..Len(index) : index[p] = label]]

\* the lookups and the connectivity that ugridify builds
ugridify_grid ==
    LET node_df_index == [i \in 1..Len(node) |-> node[i].node_id]
        edge_df == SelectSeq(edge, LAMBDA e : e.edge_type = "flow")
        edge_df_index == [i \in 1..Len(edge_df) |-> edge_df[i].index]
        node_lookup == Series(node_df_index, argsort(node_df_index))
        edge_lookup == Series(edge_df_index, argsort(edge_df_index))
    IN [node_lookup |-> node_lookup,
        edge_lookup |-> edge_lookup,
        edge_node_connectivity |->
            [i \in 1..Len(edge_df) |-> <<node_lookup[edge_df[i].from_node_id],
                                        node_lookup[edge_df[i].to_node_id]>>]]

ugridify ==
    /\ result' = Outcome("ugridify", <<>>, <<ugridify_grid>>)
    /\ UNCHANGED <<node, edge, tables, disk>>

\* node tables with pairwise distinct ids in any order
MeshNodes ==
    {s \in UNION {[1..k -> [node_id : 1..MaxNodes, node_type : {"Basin"}]] : k \in 1..MaxNodes} :
        \A i, j \in 1..Len(s) : s[i].node_id = s[j].node_id => i = j}

\* edge tables between the nodes of s, with pairwise distinct edge ids in any order
MeshEdges(s) ==
    LET ids == {s[i].node_id : i \in 1..Len(s)}
    IN {e \in UNION {[1..k -> [index : 1..MaxEdges,
                               from_node_type : {"Basin"}, from_node_id : ids,
                               to_node_type : {"Basin"}, to_node_id : ids,
                               edge_type : EdgeTypes]] : k \in 0..MaxEdges} :
          \A i, j \in 1..Len(e) : e[i].index = e[j].index => i = j}

InitUgrid ==
    \E s \in MeshNodes :
       \E e \in MeshEdges(s) :
          /\ node = s
          /\ edge = e
          /\ tables = EmptyTables
          /\ disk = [dir |-> FALSE, toml |-> FALSE, gpkg |-> NoGpkg]
          /\ result = Outcome("init", <<>>, NoArgs)

NextUgrid == ugridify

SpecUgrid == InitUgrid /\ [][NextUgrid]_vars

\* C29: node_lookup maps the node id of every row of the node table to the
\* 0-based position of the row, edge_lookup the edge id of every flow edge to
\* its 0-based position among the flow edges, and the connectivity entry of
\* every flow edge holds the positions of its from node and its to node.
C29_LookupsArePositions ==
    result.op = "ugridify" =>
      LET grid == result.args[1]
          edge_df == SelectSeq(edge, LAMBDA e : e.edge_type = "flow")
          position(id) == (CHOOSE p \in 1..Len(node) : node[p].node_id = id) - 1
      IN /\ \A p \in 1..Len(node) : grid.node_lookup[node[p].node_id] = p - 1
         /\ \A q \in 1..Len(edge_df) : grid.edge_lookup[edge_df[q].index] = q - 1
         /\ \A q \in 1..Len(edge_df) :
               grid.edge_node_connectivity[q] =
                  <<position(edge_df[q].from_node_id), position(edge_df[q].to_node_id)>>

====
